---- MODULE Spec2Model ----
(***************************************************************************)
(* Model of the CloudFormation custom resource "CodeBuildTriggerFunction"  *)
(* (the Lambda code embedded in the template): lambda_handler dispatches a *)
(* lifecycle event to handle_create / handle_update / handle_delete, which *)
(* call codebuild.start_build and cfnresponse.send.                        *)
(*                                                                         *)
(* One invocation of lambda_handler is one behaviour.  Every call to an    *)
(* external collaborator (start_build, cfnresponse.send) is one step, and  *)
(* it may return or raise.  Python values are encoded as strings:          *)
(* True / False are "True" / "False", None is "None", and an unset key of  *)
(* a dict is a key outside the DOMAIN of the function that models it.      *)
(***************************************************************************)
EXTENDS Integers, Sequences, FiniteSets, TLC

VARIABLES
    event,      \* the LifecycleEvent passed to lambda_handler
    pc,         \* position of the invocation in the handler code
    builds,     \* calls made to codebuild.start_build, in order
    reports,    \* calls made to cfnresponse.send, in order
    result,     \* local `result`: what start_build returned
    reason,     \* local `reason` of handle_update / handle_delete
    exc,        \* the exception in flight (NoExc when none)
    job,        \* position of the started build job in its buildspec
    succeeding, \* CODEBUILD_BUILD_SUCCEEDING of the build job
    cdk,        \* the cdk command the build job ran
    puts,       \* requests.put calls made by the build job's callback script
    activeBuilds, \* builds of the project in progress for other invocations
    other       \* the other invocation of lambda_handler, while it is not running

vars == <<event, pc, builds, reports, result, reason, exc,
          job, succeeding, cdk, puts, activeBuilds, other>>

-----------------------------------------------------------------------------
(* Bounds and input sets *)

\* build numbers that start_build may return are 1..MaxBuildNumber
MaxBuildNumber == 2

\* CodeBuildProject.Properties.ConcurrentBuildLimit
ConcurrentBuildLimit == 1

RequestTypes == {"Create", "Update", "Delete", "Replace"}
ProjectNames == {"p1"}
PhysicalIds == {"X", "arn:build/p1:1"}
RequestIds == {"req-1", "req-2"}
PyBools == {"True", "False"}
FlagKeys == {"BuildOnDelete", "CodeBuildCallback", "IgnoreUpdate", "CodeBuildCalback"}

-----------------------------------------------------------------------------
(* Python helpers *)

\* dict.get(key, default)
Get(d, key, default) == IF key \in DOMAIN d THEN d[key] ELSE default

\* truth value of a Python object, as `if x:` / `not x` test it
Truthy(v) == v \notin {"False", "None", ""}

\* json.dumps of a flat dict: the members in insertion order, as name/value tokens
JsonDumps(keys, d) == [i \in 1..Len(keys) |-> <<keys[i], d[keys[i]]>>]

NoExc == [type |-> "None", msg |-> ""]
\* KeyError raised by d[key]; str(KeyError('k')) is "'k'"
KeyError(key) == [type |-> "KeyError", msg |-> "'" \o key \o "'"]
\* fault raised by codebuild.start_build
StartBuildFault == [type |-> "ClientError", msg |-> "StartBuild failed"]
\* fault raised by codebuild.start_build when the project already runs
\* ConcurrentBuildLimit builds
BuildLimitFault == [type |-> "AccountLimitExceededException",
                    msg |-> "Cannot have more than 1 active builds for the project"]
\* fault raised by cfnresponse.send
SendFault == [type |-> "SendError", msg |-> "send failed"]
\* str(e)
Str(e) == e.msg

NoResult == [arn |-> "None", buildNumber |-> 0]

\* the state of an invocation of lambda_handler that has not taken a step
NewInvocation(ev) ==
    [event |-> ev, pc |-> "start", builds |-> <<>>, reports |-> <<>>,
     result |-> NoResult, reason |-> "unbound", exc |-> NoExc, job |-> "none"]

\* no other invocation: lambda_handler is invoked once
NoInvocation ==
    [event |-> <<>>, pc |-> "none", builds |-> <<>>, reports |-> <<>>,
     result |-> NoResult, reason |-> "unbound", exc |-> NoExc, job |-> "none"]

\* the ARN codebuild gives build number n of a project
BuildArn(project, n) == "arn:build/" \o project \o ":" \o ToString(n)

-----------------------------------------------------------------------------
(* get_cfn_env_var_overrides *)

CfnEventData(ev) ==
    JsonDumps(<<"LogicalResourceId", "RequestId", "StackId", "NoEcho", "Data">>,
              [LogicalResourceId |-> ev["LogicalResourceId"],
               RequestId |-> ev["RequestId"],
               StackId |-> ev["StackId"],
               NoEcho |-> Get(ev["ResourceProperties"], "NoEcho", "False"),
               Data |-> "{}"])

\* variant: the response URL is put before the event data
get_cfn_env_var_overrides_url_first(ev) ==
    LET res_config == Get(ev, "ResourceProperties", <<>>)
        first == <<[name |-> "CFN_EVENT_TYPE", type |-> "PLAINTEXT",
                    value |-> ev["RequestType"]]>>
    IN  IF Truthy(Get(res_config, "CodeBuildCallback", "None"))
        THEN first \o
             <<[name |-> "CFN_EVENT_RESPONSE_URL", type |-> "PLAINTEXT",
                value |-> ev["ResponseURL"]],
               [name |-> "CFN_EVENT_DATA", type |-> "PLAINTEXT",
                value |-> CfnEventData(ev)]>>
        ELSE first

get_cfn_env_var_overrides(ev) ==
    LET res_config == Get(ev, "ResourceProperties", <<>>)
        first == <<[name |-> "CFN_EVENT_TYPE", type |-> "PLAINTEXT",
                    value |-> ev["RequestType"]]>>
    IN  IF Truthy(Get(res_config, "CodeBuildCallback", "None"))
        THEN first \o
             <<[name |-> "CFN_EVENT_DATA", type |-> "PLAINTEXT",
                value |-> CfnEventData(ev)],
               [name |-> "CFN_EVENT_RESPONSE_URL", type |-> "PLAINTEXT",
                value |-> ev["ResponseURL"]]>>
        ELSE first

-----------------------------------------------------------------------------
(* The events CloudFormation delivers *)

\* ResourceProperties: ProjectName present or missing, each flag unset, False or True
ResourcePropertiesSet ==
    UNION { { p \in [K -> PyBools \cup ProjectNames] :
                \A k \in K : IF k = "ProjectName" THEN p[k] \in ProjectNames
                                                  ELSE p[k] \in PyBools }
            : K \in SUBSET (FlagKeys \cup {"ProjectName"}) }

\* PhysicalResourceId is absent on Create and present on Update and Delete
Events ==
    { [RequestType |-> "Create", ResourceProperties |-> p,
       LogicalResourceId |-> "SampleDeployment", RequestId |-> rid,
       StackId |-> "stack-1", ResponseURL |-> "https://cfn-response/1"]
        : p \in ResourcePropertiesSet, rid \in RequestIds }
    \cup
    { [RequestType |-> rt, ResourceProperties |-> p,
       LogicalResourceId |-> "SampleDeployment", RequestId |-> rid,
       StackId |-> "stack-1", ResponseURL |-> "https://cfn-response/1",
       PhysicalResourceId |-> pid]
        : rt \in RequestTypes \ {"Create"}, p \in ResourcePropertiesSet,
          rid \in RequestIds, pid \in PhysicalIds }

-----------------------------------------------------------------------------
(* External collaborators *)

\* codebuild.start_build(projectName, environmentVariablesOverride): the call is
\* recorded; it returns {"build": {"arn", "buildNumber"}} or raises.
StartBuild(project, env) ==
    IF activeBuilds >= ConcurrentBuildLimit
    THEN /\ builds' = Append(builds, [projectName |-> project, env |-> env,
                                      outcome |-> "refused"])
         /\ exc' = BuildLimitFault
         /\ UNCHANGED <<result, job>>
    ELSE \E n \in 0..MaxBuildNumber :
        IF n = 0
        THEN /\ builds' = Append(builds, [projectName |-> project, env |-> env,
                                          outcome |-> "raised"])
             /\ exc' = StartBuildFault
             /\ UNCHANGED <<result, job>>
        ELSE /\ builds' = Append(builds, [projectName |-> project, env |-> env,
                                          outcome |-> "returned"])
             /\ result' = [arn |-> BuildArn(project, n), buildNumber |-> n]
             /\ job' = "pre_build"
             /\ UNCHANGED exc

\* cfnresponse.send(event, context, status, {"Reason": why}, physicalResourceId=pid):
\* the call is recorded; it returns (go to okpc) or raises (go to failpc).
Send(status, why, pid, okpc, failpc) ==
    \E outcome \in {"returned", "raised"} :
        /\ reports' = Append(reports, [Status |-> status, Reason |-> why,
                                       PhysicalResourceId |-> pid,
                                       outcome |-> outcome])
        /\ IF outcome = "returned"
           THEN pc' = okpc /\ UNCHANGED exc
           ELSE pc' = failpc /\ exc' = SendFault

\* d[key] raising KeyError into the try block of lambda_handler
RaiseKeyError(key) ==
    /\ exc' = KeyError(key)
    /\ pc' = "except"

-----------------------------------------------------------------------------
(* The decisions the handlers take *)

\* variant: the CodeBuildCallback test is lost and create always reports
create_reports_always(res_config) == TRUE

\* handle_create: `if not res_config.get("CodeBuildCallback")`
create_reports(res_config) ==
    ~Truthy(Get(res_config, "CodeBuildCallback", "None"))

\* handle_create: f"Started CodeBuild #{result['build']['buildNumber']}"
started_reason(res) == "Started CodeBuild #" \o ToString(res.buildNumber)

\* variant: physicalResourceId is not passed to cfnresponse.send
create_physical_id_missing(res) == "None"

\* handle_create: physicalResourceId=result["build"]["arn"]
create_physical_id(res) == res.arn

\* variant: IgnoreUpdate is read under a key nobody sets
ignore_update_wrong_key(res_config) == Truthy(Get(res_config, "IgnoreUpdates", "False"))

\* handle_update: ignore_update = res_config.get("IgnoreUpdate", False)
ignore_update(res_config) == Truthy(Get(res_config, "IgnoreUpdate", "False"))

\* handle_update: the reason after a build was started; None suppresses the report
update_reason(res_config, res) ==
    IF Truthy(Get(res_config, "CodeBuildCalback", "None"))
    THEN "None"
    ELSE started_reason(res)

\* variant: BuildOnDelete defaults to True
build_on_delete_default_true(res_config) == Truthy(Get(res_config, "BuildOnDelete", "True"))

\* handle_delete: build_on_delete = res_config.get("BuildOnDelete", False)
build_on_delete(res_config) == Truthy(Get(res_config, "BuildOnDelete", "False"))

\* variant: the condition is lost and delete always reports
delete_reports_always(res_config) == TRUE

\* handle_delete: `if not (build_on_delete and res_config.get("CodeBuildCallback"))`
delete_reports(res_config) ==
    ~(build_on_delete(res_config) /\ Truthy(Get(res_config, "CodeBuildCallback", "None")))

\* variant: the unsupported type is reported as a success
unsupported_status_success == "SUCCESS"

\* lambda_handler, else branch: the status and reason of the report
unsupported_status == "FAILED"
unsupported_reason(request_type) ==
    "Unsupported CFN RequestType '" \o request_type \o "'"

\* variant: the fault is reported as a success
except_status_success == "SUCCESS"

\* lambda_handler, except branch: the status of the report
except_status == "FAILED"

-----------------------------------------------------------------------------
(* State machine *)

Init ==
    /\ event \in Events
    /\ pc = "start"
    /\ builds = <<>>
    /\ reports = <<>>
    /\ result = NoResult
    /\ reason = "unbound"
    /\ exc = NoExc
    /\ job = "none"
    /\ succeeding = "1"
    /\ cdk = "none"
    /\ puts = <<>>
    /\ activeBuilds = 0
    /\ other = NoInvocation

\* lambda_handler: request_type = event["RequestType"] and the if / elif chain
LambdaHandler ==
    /\ pc = "start"
    /\ pc' = CASE event["RequestType"] = "Create" -> "create"
               [] event["RequestType"] = "Update" -> "update"
               [] event["RequestType"] = "Delete" -> "delete"
               [] OTHER -> "unsupported"
    /\ UNCHANGED <<event, builds, reports, result, reason, exc,
                 job, succeeding, cdk, puts, activeBuilds, other>>

\* lambda_handler, else branch: cfnresponse.send(event, context, FAILED, {"Reason": ...})
Unsupported ==
    /\ pc = "unsupported"
    /\ Send(unsupported_status, unsupported_reason(event["RequestType"]), "None",
            "returned", "except")
    /\ UNCHANGED <<event, builds, result, reason,
                 job, succeeding, cdk, puts, activeBuilds, other>>

\* handle_create up to the return of codebuild.start_build
HandleCreate ==
    /\ pc = "create"
    /\ LET res_config == event["ResourceProperties"]
           codebuild_env_vars == get_cfn_env_var_overrides(event)
       IN  IF "ProjectName" \notin DOMAIN res_config
           THEN /\ RaiseKeyError("ProjectName")
                /\ UNCHANGED <<builds, result, job>>
           ELSE /\ StartBuild(res_config["ProjectName"], codebuild_env_vars)
                /\ pc' = IF exc' = NoExc THEN "create_send" ELSE "except"
    /\ UNCHANGED <<event, reports, reason,
                 succeeding, cdk, puts, activeBuilds, other>>

\* variant: after the report the handler reads event["PhysicalResourceId"],
\* which a Create event does not carry
HandleCreateSend_reads_missing_id ==
    /\ pc = "create_send"
    /\ IF create_reports(event["ResourceProperties"])
       THEN \E outcome \in {"returned", "raised"} :
               /\ reports' = Append(reports,
                     [Status |-> "SUCCESS", Reason |-> started_reason(result),
                      PhysicalResourceId |-> create_physical_id(result),
                      outcome |-> outcome])
               /\ pc' = "except"
               /\ exc' = IF outcome = "returned"
                         THEN KeyError("PhysicalResourceId") ELSE SendFault
       ELSE /\ pc' = "returned"
            /\ UNCHANGED <<reports, exc>>
    /\ UNCHANGED <<event, builds, result, reason,
                   job, succeeding, cdk, puts, activeBuilds, other>>

\* handle_create after start_build returned: report unless the build calls back
HandleCreateSend ==
    /\ pc = "create_send"
    /\ IF create_reports(event["ResourceProperties"])
       THEN Send("SUCCESS", started_reason(result), create_physical_id(result),
                 "returned", "except")
       ELSE /\ pc' = "returned"
            /\ UNCHANGED <<reports, exc>>
    /\ UNCHANGED <<event, builds, result, reason,
                 job, succeeding, cdk, puts, activeBuilds, other>>

\* handle_update up to `if reason is not None`
HandleUpdate ==
    /\ pc = "update"
    /\ LET res_config == Get(event, "ResourceProperties", <<>>)
       IN  IF ignore_update(res_config)
           THEN /\ reason' = "Update is a no-op"
                /\ pc' = "update_send"
                /\ UNCHANGED <<builds, result, job, exc>>
           ELSE IF "ProjectName" \notin DOMAIN res_config
           THEN /\ RaiseKeyError("ProjectName")
                /\ UNCHANGED <<builds, result, job, reason>>
           ELSE /\ StartBuild(res_config["ProjectName"], get_cfn_env_var_overrides(event))
                /\ IF exc' = NoExc
                   THEN /\ pc' = "update_send"
                        /\ reason' = update_reason(res_config, result')
                   ELSE /\ pc' = "except"
                        /\ UNCHANGED reason
    /\ UNCHANGED <<event, reports,
                 succeeding, cdk, puts, activeBuilds, other>>

\* handle_update: `if reason is not None: cfnresponse.send(...)`
HandleUpdateSend ==
    /\ pc = "update_send"
    /\ IF reason # "None"
       THEN IF "PhysicalResourceId" \in DOMAIN event
            THEN Send("SUCCESS", reason, event["PhysicalResourceId"], "returned", "except")
            ELSE RaiseKeyError("PhysicalResourceId") /\ UNCHANGED reports
       ELSE /\ pc' = "returned"
            /\ UNCHANGED <<reports, exc>>
    /\ UNCHANGED <<event, builds, result, reason,
                 job, succeeding, cdk, puts, activeBuilds, other>>

\* variant: a fault of start_build is swallowed and the handler goes on to report
HandleDelete_start_fault_swallowed ==
    /\ pc = "delete"
    /\ LET res_config == Get(event, "ResourceProperties", <<>>)
       IN  IF build_on_delete(res_config)
           THEN IF "ProjectName" \notin DOMAIN res_config
                THEN /\ RaiseKeyError("ProjectName")
                     /\ UNCHANGED <<builds, result, job, reason>>
                ELSE /\ StartBuild(res_config["ProjectName"],
                                   get_cfn_env_var_overrides(event))
                     /\ pc' = "delete_send"
                     /\ reason' = "Deletion build initiated"
           ELSE /\ reason' = "Delete is a no-op"
                /\ pc' = "delete_send"
                /\ UNCHANGED <<builds, result, job, exc>>
    /\ UNCHANGED <<event, reports,
                 succeeding, cdk, puts, activeBuilds, other>>

\* handle_delete up to `if not (build_on_delete and ...)`
HandleDelete ==
    /\ pc = "delete"
    /\ LET res_config == Get(event, "ResourceProperties", <<>>)
       IN  IF build_on_delete(res_config)
           THEN IF "ProjectName" \notin DOMAIN res_config
                THEN /\ RaiseKeyError("ProjectName")
                     /\ UNCHANGED <<builds, result, job, reason>>
                ELSE /\ StartBuild(res_config["ProjectName"],
                                   get_cfn_env_var_overrides(event))
                     /\ IF exc' = NoExc
                        THEN /\ pc' = "delete_send"
                             /\ reason' = "Deletion build initiated"
                        ELSE /\ pc' = "except"
                             /\ UNCHANGED reason
           ELSE /\ reason' = "Delete is a no-op"
                /\ pc' = "delete_send"
                /\ UNCHANGED <<builds, result, job, exc>>
    /\ UNCHANGED <<event, reports,
                 succeeding, cdk, puts, activeBuilds, other>>

\* handle_delete: report unless a build was started that calls back
HandleDeleteSend ==
    /\ pc = "delete_send"
    /\ IF delete_reports(Get(event, "ResourceProperties", <<>>))
       THEN IF "PhysicalResourceId" \in DOMAIN event
            THEN Send("SUCCESS", reason, event["PhysicalResourceId"], "returned", "except")
            ELSE RaiseKeyError("PhysicalResourceId") /\ UNCHANGED reports
       ELSE /\ pc' = "returned"
            /\ UNCHANGED <<reports, exc>>
    /\ UNCHANGED <<event, builds, result, reason,
                 job, succeeding, cdk, puts, activeBuilds, other>>

\* variant: a failing report is tried again
Except_retry ==
    /\ pc = "except"
    /\ Send(except_status, Str(exc), "None", "reraise", "except")
    /\ UNCHANGED <<event, builds, result, reason,
                   job, succeeding, cdk, puts, activeBuilds, other>>

\* lambda_handler, except branch: cfnresponse.send(event, context, FAILED,
\* {"Reason": str(e)}); a fault of this send leaves the handler at once
Except ==
    /\ pc = "except"
    /\ Send(except_status, Str(exc), "None", "reraise", "raised")
    /\ UNCHANGED <<event, builds, result, reason,
                 job, succeeding, cdk, puts, activeBuilds, other>>

\* variant: the except branch ends without `raise e`
Reraise_swallowed ==
    /\ pc = "reraise"
    /\ pc' = "returned"
    /\ UNCHANGED <<event, builds, reports, result, reason, exc,
                 job, succeeding, cdk, puts, activeBuilds, other>>

\* lambda_handler, except branch: raise e
Reraise ==
    /\ pc = "reraise"
    /\ pc' = "raised"
    /\ UNCHANGED <<event, builds, reports, result, reason, exc,
                 job, succeeding, cdk, puts, activeBuilds, other>>

Next ==
    \/ LambdaHandler
    \/ Unsupported
    \/ HandleCreate
    \/ HandleCreateSend
    \/ HandleUpdate
    \/ HandleUpdateSend
    \/ HandleDelete
    \/ HandleDeleteSend
    \/ Except
    \/ Reraise

Spec == Init /\ [][Next]_vars

-----------------------------------------------------------------------------
(* The build job: CodeBuildProject.Source.BuildSpec *)

\* os.environ.get(name) in the build job: the override of that name, else None
EnvGet(env, name) ==
    LET idx == {i \in 1..Len(env) : env[i].name = name}
    IN  IF idx = {} THEN "None" ELSE env[CHOOSE i \in idx : TRUE].value

\* the overrides the started build runs with
JobEnv == builds[Len(builds)].env

\* json.loads of a flat object: a dict, the last member of a name winning
JsonLoads(tokens) ==
    [k \in {tokens[i][1] : i \in 1..Len(tokens)} |->
        tokens[CHOOSE i \in 1..Len(tokens) :
                  /\ tokens[i][1] = k
                  /\ \A j \in 1..Len(tokens) : tokens[j][1] = k => j <= i][2]]

\* the names of a flat JSON object, in order
TokenKeys(tokens) == [i \in 1..Len(tokens) |-> tokens[i][1]]

\* variant: the status test is inverted
callback_status_inverted(flag) == IF flag # "0" THEN "FAILED" ELSE "SUCCESS"

\* "SUCCESS" if int(os.environ["CODEBUILD_BUILD_SUCCEEDING"]) else "FAILED"
callback_status(flag) == IF flag # "0" THEN "SUCCESS" ELSE "FAILED"

\* data["PhysicalResourceId"] = build_arn
callback_physical_id(build_arn) == build_arn

\* build_arn.partition('/')[2] of the ARN of build n of a project
ArnAfterSlash(project, n) == project \o ":" \o ToString(n)

\* the body the callback script PUTs: json.dumps(data)
CallbackBody(env, flag, project, n) ==
    LET tokens == EnvGet(env, "CFN_EVENT_DATA")
        data == JsonLoads(tokens)
        build_arn == BuildArn(project, n)
        log_stream == "/aws/codebuild/" \o ArnAfterSlash(project, n)
        added == <<"Status", "PhysicalResourceId", "Reason">>
        keys == TokenKeys(tokens) \o
                SelectSeq(added, LAMBDA k : k \notin DOMAIN data)
        full == [k \in DOMAIN data \cup {"Status", "PhysicalResourceId", "Reason"} |->
                    CASE k = "Status" -> callback_status(flag)
                      [] k = "PhysicalResourceId" -> callback_physical_id(build_arn)
                      [] k = "Reason" ->
                            "See details in " \o
                            (IF Truthy(log_stream)
                             THEN "CloudWatch Log Stream " \o log_stream
                             ELSE "AWS CodeBuild " \o build_arn)
                      [] OTHER -> data[k]]
    IN  JsonDumps(keys, full)

\* variant: cdk destroy is chosen on every event but Create
cdk_command_destroy_unless_create(event_type) ==
    IF event_type # "Create" THEN "destroy" ELSE "deploy"

\* if [ "$CFN_EVENT_TYPE" = "Delete" ]; then cdk destroy; else cdk deploy; fi
cdk_command(event_type) ==
    IF event_type = "Delete" THEN "destroy" ELSE "deploy"

\* pre_build: pip3 install; a failing pre_build ends the build without running
\* the build phase (and its finally block)
JobPreBuild ==
    /\ job = "pre_build"
    /\ \E ok \in BOOLEAN :
          IF ok THEN job' = "build" /\ UNCHANGED succeeding
                ELSE job' = "done" /\ succeeding' = "0"
    /\ UNCHANGED <<event, pc, builds, reports, result, reason, exc,
                   cdk, puts, activeBuilds, other>>

\* build, commands: fetch the code, npm install, cdk bootstrap, then the cdk
\* command; the first failing command ends the commands, and finally runs
JobBuild ==
    /\ job = "build"
    /\ \E outcome \in {"failed_before_cdk", "cdk_failed", "succeeded"} :
          /\ cdk' = IF outcome = "failed_before_cdk"
                    THEN "none"
                    ELSE cdk_command(EnvGet(JobEnv, "CFN_EVENT_TYPE"))
          /\ succeeding' = IF outcome = "succeeded" THEN succeeding ELSE "0"
    /\ job' = "finally"
    /\ UNCHANGED <<event, pc, builds, reports, result, reason, exc,
                   puts, activeBuilds, other>>

\* build, finally: pip3 install again; whether the next command of a finally
\* block runs after a failing one is left to CodeBuild
JobFinallyInstall ==
    /\ job = "finally"
    /\ \E ok \in BOOLEAN :
          IF ok THEN job' = "callback" /\ UNCHANGED succeeding
                ELSE job' \in {"callback", "done"} /\ succeeding' = "0"
    /\ UNCHANGED <<event, pc, builds, reports, result, reason, exc,
                   cdk, puts, activeBuilds, other>>

\* build, finally: the Python callback script
JobCallback ==
    /\ job = "callback"
    /\ LET resp_url == EnvGet(JobEnv, "CFN_EVENT_RESPONSE_URL")
       IN  IF ~Truthy(resp_url)
           THEN /\ job' = "done"
                /\ UNCHANGED <<puts, succeeding>>
           ELSE \E outcome \in {"returned", "raised"} :
                   /\ puts' = Append(puts,
                         [url |-> resp_url,
                          body |-> CallbackBody(JobEnv, succeeding,
                                                builds[Len(builds)].projectName,
                                                result.buildNumber),
                          flag |-> succeeding,
                          outcome |-> outcome])
                   /\ succeeding' = IF outcome = "raised" THEN "0" ELSE succeeding
                   /\ job' = "done"
    /\ UNCHANGED <<event, pc, builds, reports, result, reason, exc,
                   cdk, activeBuilds, other>>

\* the dispatcher together with the build job it started
NextE2E ==
    \/ Next
    \/ JobPreBuild
    \/ JobBuild
    \/ JobFinallyInstall
    \/ JobCallback

SpecE2E == Init /\ [][NextE2E]_vars

-----------------------------------------------------------------------------
(* Two invocations of lambda_handler on the same CodeBuild project *)

(***************************************************************************)
(* The runtime may invoke lambda_handler for two independent events at the *)
(* same time.  Each invocation has its own event, its own position, its    *)
(* own locals (result, reason, the fault in flight) and makes its own      *)
(* calls to start_build and cfnresponse.send.  The invocation that takes   *)
(* the next step is the one held in event, pc, builds, reports, result,    *)
(* reason, exc and job; the invocation that waits is held in `other`, and  *)
(* Switch exchanges the two between any two steps, so the steps of the two *)
(* invocations interleave in every order.  The two invocations meet in one *)
(* place only: the CodeBuild project, whose builds in progress count       *)
(* against ConcurrentBuildLimit.                                           *)
(***************************************************************************)

\* the invocation that takes the next step
Running ==
    [event |-> event, pc |-> pc, builds |-> builds, reports |-> reports,
     result |-> result, reason |-> reason, exc |-> exc, job |-> job]

\* the build an invocation started is in progress
BuildInProgress(inv) == inv.job \notin {"none", "done"}

\* the two independent events: different requests.  The first event is any
\* event with the documented properties; the second event is a Create, Update
\* or Delete of one of three resources
ConcurrentEvents ==
    {e \in Events : /\ e["RequestId"] = "req-1"
                    /\ "CodeBuildCalback" \notin DOMAIN e["ResourceProperties"]
                    /\ "PhysicalResourceId" \in DOMAIN e => e["PhysicalResourceId"] = "X"}
OtherProperties ==
    { [ProjectName |-> "p1", BuildOnDelete |-> "True", CodeBuildCallback |-> "True"],
      [ProjectName |-> "p1"],
      [BuildOnDelete |-> "True"] }
OtherEvents ==
    {e \in Events : /\ e["RequestId"] = "req-2"
                    /\ e["RequestType"] \in {"Create", "Update", "Delete"}
                    /\ e["ResourceProperties"] \in OtherProperties
                    /\ "PhysicalResourceId" \in DOMAIN e => e["PhysicalResourceId"] = "X"}

InitConcurrent ==
    /\ event \in ConcurrentEvents
    /\ pc = "start"
    /\ builds = <<>>
    /\ reports = <<>>
    /\ result = NoResult
    /\ reason = "unbound"
    /\ exc = NoExc
    /\ job = "none"
    /\ succeeding = "1"
    /\ cdk = "none"
    /\ puts = <<>>
    /\ activeBuilds = 0
    /\ other \in {NewInvocation(e) : e \in OtherEvents}

\* variant: the fault in flight is kept in a module-level global that the two
\* invocations share
Switch_shared_fault ==
    /\ other.pc \notin {"none", "returned", "raised"}
    /\ event' = other.event
    /\ pc' = other.pc
    /\ builds' = other.builds
    /\ reports' = other.reports
    /\ result' = other.result
    /\ reason' = other.reason
    /\ exc' = exc
    /\ job' = other.job
    /\ other' = Running
    /\ activeBuilds' = IF BuildInProgress(Running) THEN 1 ELSE 0
    /\ UNCHANGED <<succeeding, cdk, puts>>

\* the next step is taken by the other invocation, if it has not left
\* lambda_handler: the running invocation waits with all its locals, and the
\* build it has in progress, if any, is now a build of another invocation
Switch ==
    /\ other.pc \notin {"none", "returned", "raised"}
    /\ event' = other.event
    /\ pc' = other.pc
    /\ builds' = other.builds
    /\ reports' = other.reports
    /\ result' = other.result
    /\ reason' = other.reason
    /\ exc' = other.exc
    /\ job' = other.job
    /\ other' = Running
    /\ activeBuilds' = IF BuildInProgress(Running) THEN 1 ELSE 0
    /\ UNCHANGED <<succeeding, cdk, puts>>

\* the build of the waiting invocation ends and frees the project's slot
OtherBuildEnds ==
    /\ BuildInProgress(other)
    /\ activeBuilds > 0
    /\ activeBuilds' = activeBuilds - 1
    /\ other' = [other EXCEPT !.job = "done"]
    /\ UNCHANGED <<event, pc, builds, reports, result, reason, exc,
                   job, succeeding, cdk, puts>>

NextConcurrent ==
    \/ Next
    \/ Switch
    \/ OtherBuildEnds

SpecConcurrent == InitConcurrent /\ [][NextConcurrent]_vars

-----------------------------------------------------------------------------
(* Vocabulary of the properties *)

Props == event["ResourceProperties"]
IsCreate == event["RequestType"] = "Create"
IsUpdate == event["RequestType"] = "Update"
IsDelete == event["RequestType"] = "Delete"
IsUnsupported == event["RequestType"] \notin {"Create", "Update", "Delete"}
\* the documented flags, false when unset
CodeBuildCallback == Truthy(Get(Props, "CodeBuildCallback", "False"))
BuildOnDelete == Truthy(Get(Props, "BuildOnDelete", "False"))
IgnoreUpdate == Truthy(Get(Props, "IgnoreUpdate", "False"))
\* the key handle_update reads instead of CodeBuildCallback
MisspelledCallback == Truthy(Get(Props, "CodeBuildCalback", "False"))

\* lambda_handler returned without a fault / a fault left lambda_handler
Returned == pc = "returned"
Raised == pc = "raised"

\* the builds start_build started, and the calls of start_build that raised
StartedBuilds == SelectSeq(builds, LAMBDA b : b.outcome = "returned")
FailedStarts == SelectSeq(builds, LAMBDA b : b.outcome = "raised")
ReportsWith(status) == SelectSeq(reports, LAMBDA r : r.Status = status)
EnvNames(env) == [i \in 1..Len(env) |-> env[i].name]

\* the override pattern: CFN_EVENT_TYPE first, then the callback data and URL
\* exactly when CodeBuildCallback is set
OverridePattern(env, request_type) ==
    /\ EnvNames(env) = IF CodeBuildCallback
                       THEN <<"CFN_EVENT_TYPE", "CFN_EVENT_DATA", "CFN_EVENT_RESPONSE_URL">>
                       ELSE <<"CFN_EVENT_TYPE">>
    /\ env[1].value = request_type
    /\ CodeBuildCallback => env[3].value = event["ResponseURL"]
    /\ \A i \in 1..Len(env) : env[i].type = "PLAINTEXT"

-----------------------------------------------------------------------------
(* C1 *)

\* C1, on the events for which lambda_handler starts a build (the events whose
\* build job can take the reporting over): once the event is handled, the
\* dispatcher has sent exactly one ResponsePayload when CodeBuildCallback is
\* false or unset, and none when CodeBuildCallback is true.
C1_OnePayloadPerEvent ==
    (Returned /\ Len(StartedBuilds) = 1) =>
        Len(reports) = (IF CodeBuildCallback THEN 0 ELSE 1)

-----------------------------------------------------------------------------
(* C2 *)

\* C2: a Create without CodeBuildCallback never sends a SUCCESS report other
\* than "Started CodeBuild #<buildNumber>" with the ARN start_build returned as
\* PhysicalResourceId; when it is handled without a fault, exactly one build was
\* started, for ProjectName, and exactly that one report was sent.
C2_CreateReportsStartedBuild ==
    (IsCreate /\ ~CodeBuildCallback) =>
        /\ Len(builds) <= 1
        /\ \A i \in 1..Len(reports) :
              reports[i].Status = "SUCCESS" =>
                  /\ i = 1
                  /\ Len(StartedBuilds) = 1
                  /\ reports[i].Reason = "Started CodeBuild #" \o ToString(result.buildNumber)
                  /\ reports[i].PhysicalResourceId = result.arn
                  /\ result.arn = BuildArn(builds[1].projectName, result.buildNumber)
        /\ Returned =>
              /\ Len(StartedBuilds) = 1
              /\ builds[1].projectName = Props["ProjectName"]
              /\ Len(reports) = 1
              /\ reports[1].Status = "SUCCESS"

\* a Create without callback has returned, its build started and reported
C2_Witness ==
    /\ Returned /\ IsCreate /\ ~CodeBuildCallback
    /\ Len(StartedBuilds) = 1 /\ Len(reports) = 1
    /\ reports[1].PhysicalResourceId = BuildArn("p1", 2)

-----------------------------------------------------------------------------
(* C3 *)

\* C3: a Create with CodeBuildCallback=true never sends a SUCCESS report, and
\* sends no report at all when it is handled without a fault.
C3_CreateCallbackSilent ==
    (IsCreate /\ CodeBuildCallback) =>
        /\ Len(ReportsWith("SUCCESS")) = 0
        /\ Returned => Len(reports) = 0
        /\ Len(reports) > 0 => exc # NoExc

\* a Create with callback has returned after starting its build
C3_Witness ==
    /\ Returned /\ IsCreate /\ CodeBuildCallback
    /\ Len(StartedBuilds) = 1 /\ Len(reports) = 0

-----------------------------------------------------------------------------
(* C4 *)

\* C4: a non-ignored Update handled without a fault has started a build with
\* CFN_EVENT_TYPE=Update, and has sent a SUCCESS report if and only if
\* CodeBuildCallback is not true; the report carries the incoming
\* PhysicalResourceId.
C4_UpdateReportsIffNoCallback ==
    (IsUpdate /\ ~IgnoreUpdate /\ Returned) =>
        /\ Len(StartedBuilds) = 1
        /\ builds[1].env[1].name = "CFN_EVENT_TYPE"
        /\ builds[1].env[1].value = "Update"
        /\ (Len(ReportsWith("SUCCESS")) > 0) <=> ~CodeBuildCallback
        /\ \A i \in 1..Len(reports) :
              reports[i].PhysicalResourceId = event["PhysicalResourceId"]

-----------------------------------------------------------------------------
(* C5 *)

\* C5: an Update with IgnoreUpdate=true never starts a build, whatever
\* CodeBuildCallback is; its first report is SUCCESS, "Update is a no-op", with
\* the incoming PhysicalResourceId, and it is the only report when the event is
\* handled without a fault.
C5_IgnoredUpdateNoOp ==
    (IsUpdate /\ IgnoreUpdate) =>
        /\ Len(builds) = 0
        /\ Len(reports) > 0 =>
              /\ reports[1].Status = "SUCCESS"
              /\ reports[1].Reason = "Update is a no-op"
              /\ reports[1].PhysicalResourceId = event["PhysicalResourceId"]
        /\ Returned => Len(reports) = 1

\* an ignored Update with CodeBuildCallback set has returned after its report
C5_Witness ==
    /\ Returned /\ IsUpdate /\ IgnoreUpdate /\ CodeBuildCallback
    /\ Len(reports) = 1 /\ reports[1].PhysicalResourceId = "X"

-----------------------------------------------------------------------------
(* C6 *)

\* C6: a Delete with BuildOnDelete false or unset never starts a build,
\* whatever CodeBuildCallback is; its first report is SUCCESS, "Delete is a
\* no-op", with the incoming PhysicalResourceId, and it is the only report when
\* the event is handled without a fault.
C6_DeleteNoOp ==
    (IsDelete /\ ~BuildOnDelete) =>
        /\ Len(builds) = 0
        /\ Len(reports) > 0 =>
              /\ reports[1].Status = "SUCCESS"
              /\ reports[1].Reason = "Delete is a no-op"
              /\ reports[1].PhysicalResourceId = event["PhysicalResourceId"]
        /\ Returned => Len(reports) = 1

\* a Delete with BuildOnDelete unset has returned after its report
C6_Witness ==
    /\ Returned /\ IsDelete /\ "BuildOnDelete" \notin DOMAIN Props
    /\ Len(reports) = 1 /\ reports[1].PhysicalResourceId = "arn:build/p1:1"

-----------------------------------------------------------------------------
(* C7 *)

\* C7: a Delete with BuildOnDelete=true calls start_build at most once, with
\* the override pattern of Create (CFN_EVENT_TYPE=Delete, then the callback data
\* and URL iff CodeBuildCallback); handled without a fault, it has started
\* exactly one build and has sent a report (SUCCESS, "Deletion build
\* initiated") if and only if CodeBuildCallback is false or unset.
C7_DeleteBuildReportsIffNoCallback ==
    (IsDelete /\ BuildOnDelete) =>
        /\ Len(builds) <= 1
        /\ \A i \in 1..Len(builds) : OverridePattern(builds[i].env, "Delete")
        /\ Len(ReportsWith("SUCCESS")) > 0 => ~CodeBuildCallback
        /\ Returned =>
              /\ Len(StartedBuilds) = 1
              /\ IF CodeBuildCallback
                 THEN Len(reports) = 0
                 ELSE /\ Len(reports) = 1
                      /\ reports[1].Status = "SUCCESS"
                      /\ reports[1].Reason = "Deletion build initiated"

\* a Delete with BuildOnDelete and CodeBuildCallback has returned after
\* starting its build, silent
C7_Witness ==
    /\ Returned /\ IsDelete /\ BuildOnDelete /\ CodeBuildCallback
    /\ Len(StartedBuilds) = 1 /\ Len(builds[1].env) = 3 /\ Len(reports) = 0

-----------------------------------------------------------------------------
(* C8 *)

\* C8: an event whose RequestType is not Create, Update or Delete never starts
\* a build and never sends a SUCCESS report; its first report is FAILED with a
\* reason citing the unsupported type, and it is the only report when the event
\* is handled without a fault.
C8_UnsupportedTypeFails ==
    IsUnsupported =>
        /\ Len(builds) = 0
        /\ Len(ReportsWith("SUCCESS")) = 0
        /\ Len(reports) > 0 =>
              /\ reports[1].Status = "FAILED"
              /\ reports[1].Reason =
                    "Unsupported CFN RequestType '" \o event["RequestType"] \o "'"
        /\ Returned => Len(reports) = 1

\* an unsupported event has returned after its FAILED report
C8_Witness ==
    /\ Returned /\ IsUnsupported
    /\ Len(reports) = 1 /\ reports[1].Status = "FAILED"

-----------------------------------------------------------------------------
(* C9 *)

\* C9: once start_build has raised, no SUCCESS report is ever sent and at most
\* one report is sent; by the time the fault is re-raised or has left
\* lambda_handler, exactly one FAILED report has been sent, and the invocation
\* never returns normally.
C9_StartFaultReportedOnce ==
    Len(FailedStarts) > 0 =>
        /\ Len(ReportsWith("SUCCESS")) = 0
        /\ Len(reports) <= 1
        /\ ~Returned
        /\ pc \in {"reraise", "raised"} =>
              /\ Len(reports) = 1
              /\ reports[1].Status = "FAILED"

\* the fault of start_build has left lambda_handler after one FAILED report
C9_Witness ==
    /\ Raised /\ Len(FailedStarts) = 1 /\ exc = StartBuildFault
    /\ Len(reports) = 1 /\ reports[1].Status = "FAILED"

-----------------------------------------------------------------------------
(* C10 *)

\* the description of the fault raised in the try block of lambda_handler
TryFaultDescription ==
    IF Len(FailedStarts) > 0 THEN "StartBuild failed"
    ELSE IF \E i \in 1..Len(reports) - 1 : reports[i].outcome = "raised"
         THEN "send failed"
    ELSE "'ProjectName'"

\* C10: a fault raised while the event is handled (start_build, a report, a
\* missing ProjectName) is caught, reported as FAILED with the fault's
\* description as reason, and then leaves lambda_handler: the invocation never
\* returns normally once a fault occurred, it returns normally only without
\* one, and when the fault is about to be re-raised or has left the handler the
\* last report is that FAILED report.
C10_FaultReportedAndReraised ==
    /\ Returned =>
          /\ exc = NoExc
          /\ Len(FailedStarts) = 0
          /\ \A i \in 1..Len(reports) : reports[i].outcome = "returned"
    /\ exc # NoExc => pc \in {"except", "reraise", "raised"}
    /\ pc \in {"reraise", "raised"} =>
          /\ exc # NoExc
          /\ Len(reports) > 0
          /\ reports[Len(reports)].Status = "FAILED"
          /\ reports[Len(reports)].Reason = TryFaultDescription
    /\ pc = "reraise" => Str(exc) = reports[Len(reports)].Reason

\* the KeyError of a missing ProjectName has left lambda_handler, reported
C10_Witness ==
    /\ Raised /\ exc = KeyError("ProjectName")
    /\ Len(reports) = 1 /\ reports[1].Status = "FAILED"
    /\ reports[1].Reason = "'ProjectName'" /\ reports[1].outcome = "returned"

-----------------------------------------------------------------------------
(* C11 *)

\* C11 as stated: within one invocation start_build is called at most once and
\* the report is attempted at most once, also when the attempt itself fails.
C11_AsStated ==
    Len(builds) <= 1 /\ Len(reports) <= 1

\* C11, amended: start_build is called at most once and never retried.  The
\* report is attempted once, except that when an attempt made in the try block
\* raises, the except branch makes one further attempt, a FAILED report with
\* that fault's description; there are never more than two attempts, and none
\* follows an attempt that returned.
C11_OneCallEachUnlessSendRaised ==
    /\ Len(builds) <= 1
    /\ Len(reports) <= 2
    /\ \A i \in 2..Len(reports) :
          /\ reports[i - 1].outcome = "raised"
          /\ reports[i].Status = "FAILED"
          /\ reports[i].Reason = Str(SendFault)
    /\ pc \in {"returned", "reraise"} =>
          \/ Len(reports) = 0
          \/ reports[Len(reports)].outcome = "returned"

\* the FAILED report of an unsupported type raised, and the except branch has
\* made the second attempt
C11_Witness ==
    /\ IsUnsupported /\ Len(reports) = 2
    /\ reports[1].outcome = "raised" /\ reports[2].Status = "FAILED"

-----------------------------------------------------------------------------
(* C12 *)

\* C12: every report sent for an Update or a Delete, SUCCESS or FAILED,
\* carries the PhysicalResourceId the event came with.
C12_ReportsKeepPhysicalId ==
    (IsUpdate \/ IsDelete) =>
        \A i \in 1..Len(reports) :
            /\ reports[i].PhysicalResourceId # "None"
            /\ reports[i].PhysicalResourceId = event["PhysicalResourceId"]

-----------------------------------------------------------------------------
(* C13 *)

EnvHas(env, name) == \E i \in 1..Len(env) : env[i].name = name

\* C13: the overrides of every start_build call begin with CFN_EVENT_TYPE set
\* to the RequestType, continue with CFN_EVENT_DATA and then
\* CFN_EVENT_RESPONSE_URL (the event's ResponseURL) exactly when
\* CodeBuildCallback is true, are all PLAINTEXT, and hold nothing else; the
\* event data names the event's LogicalResourceId, RequestId and StackId.
C13_OverridesOfEveryBuild ==
    \A i \in 1..Len(builds) :
        LET env == builds[i].env
        IN  /\ env[1] = [name |-> "CFN_EVENT_TYPE", type |-> "PLAINTEXT",
                         value |-> event["RequestType"]]
            /\ Len(env) = IF CodeBuildCallback THEN 3 ELSE 1
            /\ CodeBuildCallback =>
                  /\ env[2].name = "CFN_EVENT_DATA"
                  /\ env[2].type = "PLAINTEXT"
                  /\ TokenKeys(env[2].value) =
                        <<"LogicalResourceId", "RequestId", "StackId", "NoEcho", "Data">>
                  /\ JsonLoads(env[2].value)["RequestId"] = event["RequestId"]
                  /\ JsonLoads(env[2].value)["StackId"] = event["StackId"]
                  /\ JsonLoads(env[2].value)["LogicalResourceId"] =
                        event["LogicalResourceId"]
                  /\ env[3] = [name |-> "CFN_EVENT_RESPONSE_URL", type |-> "PLAINTEXT",
                               value |-> event["ResponseURL"]]

\* an Update with CodeBuildCallback has started its build with three overrides
C13_Witness ==
    /\ IsUpdate /\ CodeBuildCallback /\ Len(StartedBuilds) = 1
    /\ Len(builds[1].env) = 3 /\ builds[1].env[1].value = "Update"

-----------------------------------------------------------------------------
(* C14 *)

\* C14: a build job started with CFN_EVENT_RESPONSE_URL has, when it ends, sent
\* exactly one ResponsePayload, whichever phase or command failed.
C14_JobReportsOnce ==
    (job = "done" /\ EnvHas(JobEnv, "CFN_EVENT_RESPONSE_URL")) => Len(puts) = 1

-----------------------------------------------------------------------------
(* C15 *)

\* the properties of the template's SampleDeployment resource
SampleDeployment ==
    Props = [ProjectName |-> "p1", BuildOnDelete |-> "True", CodeBuildCallback |-> "True"]

\* C15: with the SampleDeployment properties start_build is called at most
\* once; a Create, Update or Delete handled without a fault has started exactly
\* one build; a build that gets to its cdk command runs cdk destroy exactly for
\* a Delete and cdk deploy for a Create or an Update, and a build that ends its
\* commands without a cdk command has failed.
C15_DeployOrDestroy ==
    (SampleDeployment /\ ~IsUnsupported) =>
        /\ Len(builds) <= 1
        /\ Returned => Len(StartedBuilds) = 1
        /\ cdk = "destroy" => IsDelete
        /\ cdk = "deploy" => (IsCreate \/ IsUpdate)
        /\ job \in {"finally", "callback"} =>
              /\ cdk = "none" => succeeding = "0"
              /\ succeeding = "1" => cdk = (IF IsDelete THEN "destroy" ELSE "deploy")

\* the build of a SampleDeployment Delete has run cdk destroy
C15_Witness ==
    /\ SampleDeployment /\ IsDelete /\ cdk = "destroy" /\ job = "done"

-----------------------------------------------------------------------------
(* C16 *)

(***************************************************************************)
(* What one invocation of lambda_handler does alone, written as a function *)
(* of its event: the set of its possible runs, a run being the calls to    *)
(* start_build, the calls to cfnresponse.send and the way the handler is   *)
(* left.  Alone, no other build of the project is in progress.             *)
(***************************************************************************)

Call(project, env, outcome) ==
    [projectName |-> project, env |-> env, outcome |-> outcome]
Report(status, why, pid, outcome) ==
    [Status |-> status, Reason |-> why, PhysicalResourceId |-> pid,
     outcome |-> outcome]
Run(bs, rs, end) == [builds |-> bs, reports |-> rs, pc |-> end]

\* lambda_handler, except branch, for fault e raised after the calls bs and rs
ExceptRuns(bs, rs, e) ==
    { Run(bs, Append(rs, Report(except_status, Str(e), "None", o)), "raised")
        : o \in {"returned", "raised"} }

\* a cfnresponse.send that ends the try block: it returns, or it raises into
\* the except branch
SendRuns(bs, status, why, pid) ==
    {Run(bs, <<Report(status, why, pid, "returned")>>, "returned")}
    \cup ExceptRuns(bs, <<Report(status, why, pid, "raised")>>, SendFault)

\* lambda_handler(ev) with no other build of the project in progress
SoloRuns(ev) ==
    LET res_config == ev["ResourceProperties"]
        env == get_cfn_env_var_overrides(ev)
        Res(n) == [arn |-> BuildArn(res_config["ProjectName"], n), buildNumber |-> n]
        started == <<Call(res_config["ProjectName"], env, "returned")>>
        \* res_config["ProjectName"], start_build, and what follows build n
        StartRuns(After(_)) ==
            IF "ProjectName" \notin DOMAIN res_config
            THEN ExceptRuns(<<>>, <<>>, KeyError("ProjectName"))
            ELSE ExceptRuns(<<Call(res_config["ProjectName"], env, "raised")>>,
                            <<>>, StartBuildFault)
                 \cup UNION {After(n) : n \in 1..MaxBuildNumber}
        \* the SUCCESS report with physicalResourceId=event["PhysicalResourceId"]
        SendWithId(bs, why) ==
            IF "PhysicalResourceId" \in DOMAIN ev
            THEN SendRuns(bs, "SUCCESS", why, ev["PhysicalResourceId"])
            ELSE ExceptRuns(bs, <<>>, KeyError("PhysicalResourceId"))
        CreateAfter(n) ==
            IF create_reports(res_config)
            THEN SendRuns(started, "SUCCESS", started_reason(Res(n)),
                          create_physical_id(Res(n)))
            ELSE {Run(started, <<>>, "returned")}
        UpdateAfter(n) ==
            IF update_reason(res_config, Res(n)) # "None"
            THEN SendWithId(started, update_reason(res_config, Res(n)))
            ELSE {Run(started, <<>>, "returned")}
        DeleteAfter(n) ==
            IF delete_reports(res_config)
            THEN SendWithId(started, "Deletion build initiated")
            ELSE {Run(started, <<>>, "returned")}
    IN  CASE ev["RequestType"] = "Create" -> StartRuns(CreateAfter)
          [] ev["RequestType"] = "Update" ->
                IF ignore_update(res_config)
                THEN SendWithId(<<>>, "Update is a no-op")
                ELSE StartRuns(UpdateAfter)
          [] ev["RequestType"] = "Delete" ->
                IF build_on_delete(res_config)
                THEN StartRuns(DeleteAfter)
                ELSE IF delete_reports(res_config)
                     THEN SendWithId(<<>>, "Delete is a no-op")
                     ELSE {Run(<<>>, <<>>, "returned")}
          [] OTHER -> SendRuns(<<>>, unsupported_status,
                               unsupported_reason(ev["RequestType"]), "None")

\* lambda_handler(ev) gets as far as a start_build call
StartsBuild(ev) ==
    /\ "ProjectName" \in DOMAIN ev["ResourceProperties"]
    /\ \/ ev["RequestType"] = "Create"
       \/ ev["RequestType"] = "Update" /\ ~ignore_update(ev["ResourceProperties"])
       \/ ev["RequestType"] = "Delete" /\ build_on_delete(ev["ResourceProperties"])

\* lambda_handler(ev) when start_build is refused for ConcurrentBuildLimit: the
\* one call, then the except branch with the limit fault
RefusedRuns(ev) ==
    IF StartsBuild(ev)
    THEN ExceptRuns(<<Call(ev["ResourceProperties"]["ProjectName"],
                           get_cfn_env_var_overrides(ev), "refused")>>,
                    <<>>, BuildLimitFault)
    ELSE {}

IsPrefix(s, t) == Len(s) <= Len(t) /\ SubSeq(t, 1, Len(s)) = s

\* the calls invocation inv has made are those of one of the runs: all of
\* them, with the same way out, once inv has left lambda_handler, and the first
\* of them while it is under way
FollowsOneOf(inv, runs) ==
    \E r \in runs :
        IF inv.pc \in {"returned", "raised"}
        THEN inv.builds = r.builds /\ inv.reports = r.reports /\ inv.pc = r.pc
        ELSE IsPrefix(inv.builds, r.builds) /\ IsPrefix(inv.reports, r.reports)

\* SoloRuns is what an invocation does alone: holds of the single invocation
\* of Spec
AloneFollowsSoloRuns == FollowsOneOf(Running, SoloRuns(event))

WasRefused(inv) == \E i \in 1..Len(inv.builds) : inv.builds[i].outcome = "refused"
HasStarted(inv) == \E i \in 1..Len(inv.builds) : inv.builds[i].outcome = "returned"

\* C16 as stated: under any interleaving of two invocations, the builds started
\* and the reports sent by each invocation are those of one of its runs alone.
C16_AsStated ==
    /\ FollowsOneOf(Running, SoloRuns(event))
    /\ FollowsOneOf(other, SoloRuns(other.event))

\* C16, amended: under any interleaving of two invocations, the builds started
\* and the reports sent by each invocation are those of one of its runs alone,
\* with one exception.  The invocations share the CodeBuild project and its
\* ConcurrentBuildLimit of 1: the start_build of an invocation can be refused
\* when the other invocation has started a build, and that invocation then
\* makes this one start_build call, sends one FAILED report with the limit
\* fault's description, no SUCCESS report, and raises.
C16_OnlyTheBuildSlotIsShared ==
    /\ \/ FollowsOneOf(Running, SoloRuns(event))
       \/ /\ WasRefused(Running) /\ HasStarted(other)
          /\ FollowsOneOf(Running, RefusedRuns(event))
    /\ \/ FollowsOneOf(other, SoloRuns(other.event))
       \/ /\ WasRefused(other) /\ HasStarted(Running)
          /\ FollowsOneOf(other, RefusedRuns(other.event))
    /\ ~(WasRefused(Running) /\ WasRefused(other))

\* both invocations have left lambda_handler: the first started its build and
\* reported it, the start_build of the second was refused meanwhile and it
\* reported the limit fault and raised
C16_Witness ==
    /\ Raised /\ builds = <<Call("p1", get_cfn_env_var_overrides(event), "refused")>>
    /\ reports = <<Report("FAILED", Str(BuildLimitFault), "None", "returned")>>
    /\ other.pc = "returned" /\ HasStarted(other)
    /\ Len(other.reports) = 1 /\ other.reports[1].Status = "SUCCESS"

-----------------------------------------------------------------------------
(* C17 *)

\* C17: an invocation that returns normally without a report has started a
\* build whose overrides hold CFN_EVENT_RESPONSE_URL and CFN_EVENT_DATA.
C17_SilentOnlyIfBuildCanReport ==
    (Returned /\ Len(reports) = 0) =>
        /\ Len(StartedBuilds) = 1
        /\ EnvHas(builds[1].env, "CFN_EVENT_RESPONSE_URL")
        /\ EnvHas(builds[1].env, "CFN_EVENT_DATA")

-----------------------------------------------------------------------------
(* C18 *)

\* C18: for an Update with CodeBuildCallback=true handled without a fault,
\* every payload sent to the response URL, by the dispatcher or by the callback
\* script of the build, carries the PhysicalResourceId the event came with.
C18_UpdateKeepsPhysicalId ==
    (IsUpdate /\ CodeBuildCallback /\ Returned) =>
        /\ \A i \in 1..Len(reports) :
              reports[i].PhysicalResourceId = event["PhysicalResourceId"]
        /\ \A i \in 1..Len(puts) :
              JsonLoads(puts[i].body)["PhysicalResourceId"] = event["PhysicalResourceId"]

-----------------------------------------------------------------------------
(* C19 *)

\* C19 as stated: one invocation never attempts both a SUCCESS report and a
\* FAILED report.
C19_AsStated ==
    ~(Len(ReportsWith("SUCCESS")) > 0 /\ Len(ReportsWith("FAILED")) > 0)

\* C19, amended: a FAILED report follows a SUCCESS report only when the SUCCESS
\* attempt itself raised; no FAILED report follows a SUCCESS report that was
\* sent, and no SUCCESS report follows a FAILED one.
C19_FailedAfterSuccessOnlyIfRaised ==
    \A i, j \in 1..Len(reports) :
        i < j =>
            /\ reports[j].Status = "FAILED"
            /\ reports[i].Status = "SUCCESS" => reports[i].outcome = "raised"

\* the SUCCESS report of a Create raised and the except branch sent FAILED
C19_Witness ==
    /\ IsCreate /\ Len(reports) = 2
    /\ reports[1].Status = "SUCCESS" /\ reports[1].outcome = "raised"
    /\ reports[2].Status = "FAILED"

-----------------------------------------------------------------------------
(* C20 *)

\* C20: every payload the build job PUTs goes to the event's ResponseURL, names
\* the event's LogicalResourceId, RequestId and StackId, has Status SUCCESS if
\* and only if CODEBUILD_BUILD_SUCCEEDING is non-zero (FAILED when a command
\* failed before the cdk command), and has the ARN of the running build as
\* PhysicalResourceId; the job PUTs at most once, only for an event with
\* CodeBuildCallback, and a job without CFN_EVENT_RESPONSE_URL PUTs nothing.
C20_CallbackRoundTrip ==
    /\ Len(puts) <= 1
    /\ Len(puts) > 0 => CodeBuildCallback
    /\ \A i \in 1..Len(puts) :
          LET data == JsonLoads(puts[i].body)
          IN  /\ puts[i].url = event["ResponseURL"]
              /\ data["LogicalResourceId"] = event["LogicalResourceId"]
              /\ data["RequestId"] = event["RequestId"]
              /\ data["StackId"] = event["StackId"]
              /\ data["Status"] \in {"SUCCESS", "FAILED"}
              /\ data["Status"] = "SUCCESS" <=> puts[i].flag # "0"
              /\ cdk = "none" => data["Status"] = "FAILED"
              /\ data["PhysicalResourceId"] = result.arn
    /\ (job = "done" /\ ~EnvHas(JobEnv, "CFN_EVENT_RESPONSE_URL")) => Len(puts) = 0

\* the build of the second request failed and its callback reported FAILED
C20_Witness ==
    /\ job = "done" /\ Len(puts) = 1 /\ puts[1].outcome = "returned"
    /\ JsonLoads(puts[1].body)["Status"] = "FAILED"
    /\ JsonLoads(puts[1].body)["RequestId"] = "req-2"

-----------------------------------------------------------------------------
(* C21 *)

\* the reasons that announce a build: "Deletion build initiated" and
\* "Started CodeBuild #n" for every build number start_build may return
BuildAnnouncements ==
    {"Deletion build initiated"} \cup
    {started_reason([arn |-> "None", buildNumber |-> n]) : n \in 0..MaxBuildNumber}

\* C21: within one invocation start_build is called at most once; a step that
\* sends a SUCCESS report whose reason announces a build is taken only when the
\* one start_build call of the invocation has already returned (and a
\* "Started CodeBuild #n" names the number that call returned); and a step that
\* calls start_build is taken only while no report has been sent.
C21_StartThenReport ==
    [][ /\ Len(builds') <= 1
        /\ builds' # builds => Len(reports) = 0
        /\ reports' # reports =>
              LET r == reports'[Len(reports')]
              IN  (r.Status = "SUCCESS" /\ r.Reason \in BuildAnnouncements) =>
                     /\ Len(builds) = 1
                     /\ builds[1].outcome = "returned"
                     /\ r.Reason # "Deletion build initiated" =>
                            r.Reason = started_reason(result)
      ]_vars

\* an Update started build #2 and then announced it in its one SUCCESS report
C21_Witness ==
    /\ Returned /\ IsUpdate
    /\ Len(builds) = 1 /\ builds[1].outcome = "returned"
    /\ Len(reports) = 1 /\ reports[1].Status = "SUCCESS"
    /\ reports[1].Reason = "Started CodeBuild #2"
    /\ reports[1].outcome = "returned"

====
